---- MODULE Spec2Model ----
(***************************************************************************)
(* Model of app.py: the store (models, chats, messages), the startup hook  *)
(* _init_db, the model and chat CRUD routes, the send_message route and    *)
(* the interaction adapter _run_interaction with its session / retry /     *)
(* stateless fallback chain.                                               *)
(*                                                                         *)
(* Spec        the chat routes and send_message.                           *)
(* SpecModels  the startup hook and the model routes, from a new database. *)
(* SpecArchive Spec with a caller that archives and restores a chat.       *)
(* SpecWindow  send_message on chats whose history exceeds the window.     *)
(*                                                                         *)
(* Text is a sequence of one-character strings, so that strip(), slicing,  *)
(* startswith() and the transcript builder are computed as the code does.  *)
(* Interaction references are opaque strings; "" is the empty reference.   *)
(***************************************************************************)
EXTENDS Integers, Sequences, FiniteSets, TLC

VARIABLES chats, nextChatId, messages, nextMsgId, now, env, reqs,
          models, nextModelId, client

vars == <<chats, nextChatId, messages, nextMsgId, now, env, reqs, models, nextModelId, client>>

(* ------------------------------ bounds -------------------------------- *)

MaxChats == 1
MaxMsgs == 4
MaxClock == 1
MaxModelId == 7
MaxHistory == 22

(* ------------------------- program constants -------------------------- *)

TitlePrefixLen == 60
MaxTitleLen == 200
HistoryWindow == 20

(* ------------------------------- text --------------------------------- *)

Whitespace == {" ", "\n", "\t"}

NULL == <<"NULL">>

Min(a, b) == IF a < b THEN a ELSE b

Max(a, b) == IF a > b THEN a ELSE b

Repeat(c, n) == [i \in 1 .. n |-> c]

RECURSIVE LStrip(_)
LStrip(s) == IF s # <<>> /\ Head(s) \in Whitespace THEN LStrip(Tail(s)) ELSE s

RECURSIVE RStrip(_)
RStrip(s) ==
    IF s # <<>> /\ s[Len(s)] \in Whitespace THEN RStrip(SubSeq(s, 1, Len(s) - 1)) ELSE s

Strip(s) == RStrip(LStrip(s))

Truthy(s) == s # NULL /\ s # <<>>

OrElse(s, d) == IF Truthy(s) THEN s ELSE d

Prefix(s, n) == SubSeq(s, 1, Min(n, Len(s)))

LastN(s, n) == SubSeq(s, Max(1, Len(s) - n + 1), Len(s))

StartsWith(s, p) == Len(s) >= Len(p) /\ SubSeq(s, 1, Len(p)) = p

RECURSIVE JoinLines(_)
JoinLines(lines) ==
    IF lines = <<>> THEN <<>>
    ELSE IF Len(lines) = 1 THEN lines[1]
    ELSE lines[1] \o <<"\n">> \o JoinLines(Tail(lines))

NewChatTitle == <<"N", "e", "w", " ", "C", "h", "a", "t">>

AgentMarker == <<"d", "e", "e", "p", "-", "r", "e", "s", "e", "a", "r", "c", "h">>

AgentModel == AgentMarker \o <<"-", "p", "r", "o">>

PlainModel == <<"g", "e", "m", "i", "n", "i">>

UserLabel == <<"U", "s", "e", "r">>

AssistantLabel == <<"A", "s", "s", "i", "s", "t", "a", "n", "t">>

FlashPreview ==
    <<"g", "e", "m", "i", "n", "i", "-", "3", "-", "f", "l", "a", "s", "h",
    "-", "p", "r", "e", "v", "i", "e", "w">>

ProPreview ==
    <<"g", "e", "m", "i", "n", "i", "-", "3", "-", "p", "r", "o", "-", "p",
    "r", "e", "v", "i", "e", "w">>

DeepResearchPreview ==
    <<"d", "e", "e", "p", "-", "r", "e", "s", "e", "a", "r", "c", "h", "-",
    "p", "r", "o", "-", "p", "r", "e", "v", "i", "e", "w", "-", "1", "2",
    "-", "2", "0", "2", "5">>

DefaultModels == <<FlashPreview, ProPreview, DeepResearchPreview>>

(* ------------------------------ inputs -------------------------------- *)

LongText == Repeat("a", TitlePrefixLen - 1) \o <<" ", "b">>

ContentInputs == {NULL, <<" ">>, <<" ">> \o LongText \o <<"\n">>, NewChatTitle}

ModelInputs == {NULL, <<" ">> \o AgentModel, PlainModel}

MineTitle == <<"M", "y">>

CreateTitleInputs == {NULL, <<" ">>, MineTitle \o <<" ">>}

CreateModelInputs == {NULL}

RenameTitleInputs == {NULL, <<"\t">>, <<" ">> \o MineTitle, Repeat("x", MaxTitleLen + 1)}

SessionIds == {"s1", "s2", "s3", "s4"}

InteractionIds == {"i1", "i2", "i3", "i4"}

OkReply == <<"o", "k">>

ReplyTexts == {OkReply, <<>>, <<" ", "\n">>}

ChatIdInputs == 1 .. (MaxChats + 1)

Statuses == {200, 400, 404, 500, 502}

Procs == {1}

CustomModel == <<"m", "1">>

ModelNameInputs == {NULL, <<" ">>, <<" ">> \o FlashPreview, ProPreview, CustomModel \o <<"\n">>}

ModelIdInputs == 1 .. MaxModelId

(* ----------------------------- storage -------------------------------- *)

UtcNow == now

ChatExists(c) == c \in DOMAIN chats

RECURSIVE SelectSeq2(_, _)
SelectSeq2(s, c) ==
    IF s = <<>> THEN <<>>
    ELSE IF Head(s).chat_id = c THEN <<Head(s)>> \o SelectSeq2(Tail(s), c)
    ELSE SelectSeq2(Tail(s), c)

FetchMessages(c) == SelectSeq2(messages, c)

RECURSIVE DeleteMessagesOf(_, _)
DeleteMessagesOf(s, c) ==
    IF s = <<>> THEN <<>>
    ELSE IF Head(s).chat_id = c THEN DeleteMessagesOf(Tail(s), c)
    ELSE <<Head(s)>> \o DeleteMessagesOf(Tail(s), c)

(* A message row without its created_at column, which no statement reads. *)
MessageRow(c, role, content) ==
    [id |-> nextMsgId, chat_id |-> c, role |-> role, content |-> content]

InsertChat(row) == (nextChatId :> row) @@ chats

UpdateChat(c, fields) == [chats EXCEPT ![c] = fields @@ chats[c]]

(* _init_db creates the tables; on a database file that never held a model *)
(* row its first run seeds the defaults, so the schema exists exactly when  *)
(* a model id has been handed out.                                          *)
SchemaReady == nextModelId > 1

FetchModels == models

ModelIds == {models[i].id : i \in 1 .. Len(models)}

ModelNames == {models[i].name : i \in 1 .. Len(models)}

SeedRows(first, t) ==
    [i \in 1 .. Len(DefaultModels) |->
        [id |-> first + i - 1, name |-> DefaultModels[i], created_at |-> t]]

RECURSIVE DeleteModelRow(_, _)
DeleteModelRow(s, id) ==
    IF s = <<>> THEN <<>>
    ELSE IF Head(s).id = id THEN DeleteModelRow(Tail(s), id)
    ELSE <<Head(s)>> \o DeleteModelRow(Tail(s), id)

ChatRow(c) == [id |-> c] @@ chats[c]

(* ORDER BY updated_at DESC; rows of equal updated_at come in rowid order. *)
RECURSIVE OrderByUpdatedDesc(_)
OrderByUpdatedDesc(ids) ==
    IF ids = {} THEN <<>>
    ELSE LET top == CHOOSE c \in ids :
                        \A d \in ids :
                            \/ chats[c].updated_at > chats[d].updated_at
                            \/ chats[c].updated_at = chats[d].updated_at /\ c <= d
         IN  <<ChatRow(top)>> \o OrderByUpdatedDesc(ids \ {top})

FetchChats(include_archived) ==
    OrderByUpdatedDesc({c \in DOMAIN chats : include_archived \/ chats[c].archived = 0})

(* ------------------------------ state --------------------------------- *)

IdleReq ==
    [pc |-> "idle", chat_id |-> 0, content |-> <<>>, model_name |-> <<>>,
     title |-> <<>>, previous |-> "", user_msg_id |-> 0, history |-> <<>>,
     session_id |-> "", message_to_send |-> <<>>, calls |-> <<>>,
     text |-> <<>>, interaction_id |-> "", status |-> 0]

(* What the caller of the routes holds: the status of the last answer of a *)
(* model route, and the chat list, chat row and history it last read.      *)
IdleClient ==
    [pc |-> "idle", status |-> 0, chat_id |-> 0, list |-> <<>>, row |-> <<>>,
     history |-> <<>>]

Answer(status) == client' = [client EXCEPT !.status = status]

(* The state after the first startup on a new database file. *)
Init ==
    /\ chats = <<>>
    /\ nextChatId = 1
    /\ messages = <<>>
    /\ nextMsgId = 1
    /\ now = 0
    /\ env \in [GEMINI_API_KEY : BOOLEAN, GOOGLE_API_KEY : {FALSE}]
    /\ reqs = [p \in Procs |-> IdleReq]
    /\ models = SeedRows(1, 0)
    /\ nextModelId = Len(DefaultModels) + 1
    /\ client = IdleClient

Tick ==
    /\ now < MaxClock
    /\ now' = now + 1
    /\ UNCHANGED <<chats, nextChatId, messages, nextMsgId, env, reqs, models, nextModelId, client>>

(* ---------------------------- chat routes ----------------------------- *)

CreateChat(title_in, model_in) ==
    LET title == OrElse(Strip(OrElse(title_in, NewChatTitle)), NewChatTitle)
        row == [title |-> title, interaction_id |-> "", last_model |-> model_in,
                archived |-> 0, created_at |-> UtcNow, updated_at |-> UtcNow]
    IN  /\ nextChatId <= MaxChats
        /\ chats' = InsertChat(row)
        /\ nextChatId' = nextChatId + 1
        /\ UNCHANGED <<messages, nextMsgId, now, env, reqs, models, nextModelId, client>>

(* The routes below answer with an HTTP status; it is the action's last    *)
(* parameter, fixed by the code's branch. An HTTPException raised inside   *)
(* "with conn" rolls the transaction back.                                 *)

DeleteChatNoRollback(chat_id, status) ==
    /\ status = IF ChatExists(chat_id) THEN 200 ELSE 404
    /\ messages' = DeleteMessagesOf(messages, chat_id)
    /\ chats' = [c \in DOMAIN chats \ {chat_id} |-> chats[c]]
    /\ UNCHANGED <<nextChatId, nextMsgId, now, env, reqs, models, nextModelId, client>>

DeleteChat(chat_id, status) ==
    LET deleted == DeleteMessagesOf(messages, chat_id)
        rowcount == IF ChatExists(chat_id) THEN 1 ELSE 0
    IN  /\ IF rowcount = 0
              THEN /\ status = 404
                   /\ messages' = messages
                   /\ chats' = chats
              ELSE /\ status = 200
                   /\ messages' = deleted
                   /\ chats' = [c \in DOMAIN chats \ {chat_id} |-> chats[c]]
        /\ UNCHANGED <<nextChatId, nextMsgId, now, env, reqs, models, nextModelId, client>>

RenameChat(chat_id, title_in, status) ==
    LET title == Strip(OrElse(title_in, <<>>))
    IN  /\ IF title = <<>> \/ Len(title) > MaxTitleLen
              THEN /\ status = 400
                   /\ chats' = chats
              ELSE IF ~ChatExists(chat_id)
                      THEN /\ status = 404
                           /\ chats' = chats
                      ELSE /\ status = 200
                           /\ chats' = UpdateChat(chat_id,
                                          [title |-> title, updated_at |-> UtcNow])
        /\ UNCHANGED <<nextChatId, messages, nextMsgId, now, env, reqs, models, nextModelId, client>>

SetArchived(chat_id, flag, status) ==
    /\ IF ~ChatExists(chat_id)
          THEN /\ status = 404
               /\ chats' = chats
          ELSE /\ status = 200
               /\ chats' = UpdateChat(chat_id, [archived |-> flag, updated_at |-> UtcNow])
    /\ UNCHANGED <<nextChatId, messages, nextMsgId, now, env, reqs, models, nextModelId>>

ArchiveChat(chat_id, status) == SetArchived(chat_id, 1, status)

RestoreChatResetsReference(chat_id, status) ==
    /\ IF ~ChatExists(chat_id)
          THEN /\ status = 404
               /\ chats' = chats
          ELSE /\ status = 200
               /\ chats' = UpdateChat(chat_id, [archived |-> 0, interaction_id |-> "",
                                               updated_at |-> UtcNow])
    /\ UNCHANGED <<nextChatId, messages, nextMsgId, now, env, reqs, models, nextModelId>>

RestoreChat(chat_id, status) == SetArchived(chat_id, 0, status)

(* The read routes, as the values they answer with. *)

ListChats == FetchChats(FALSE)

GetChat(chat_id) ==
    [chat |-> [id |-> chat_id, title |-> chats[chat_id].title,
               interaction_id |-> chats[chat_id].interaction_id,
               last_model |-> chats[chat_id].last_model,
               created_at |-> chats[chat_id].created_at,
               updated_at |-> chats[chat_id].updated_at],
     messages |-> FetchMessages(chat_id)]

(* ---------------------- startup and model routes ---------------------- *)

ModelsFrame == UNCHANGED <<chats, nextChatId, messages, nextMsgId, now, env, reqs>>

InitDbReinserts ==
    LET missing == SelectSeq(DefaultModels, LAMBDA n : n \notin ModelNames)
    IN  /\ nextModelId + Len(missing) - 1 <= MaxModelId
        /\ models' = models \o [i \in 1 .. Len(missing) |->
                                   [id |-> nextModelId + i - 1, name |-> missing[i],
                                    created_at |-> UtcNow]]
        /\ nextModelId' = nextModelId + Len(missing)
        /\ ModelsFrame
        /\ UNCHANGED client

InitDb ==
    LET existing == Len(models)
    IN  /\ IF existing = 0
              THEN /\ nextModelId + Len(DefaultModels) - 1 <= MaxModelId
                   /\ models' = SeedRows(nextModelId, UtcNow)
                   /\ nextModelId' = nextModelId + Len(DefaultModels)
              ELSE UNCHANGED <<models, nextModelId>>
        /\ ModelsFrame
        /\ UNCHANGED client

CreateModelReplaces(name_in, status) ==
    LET name == Strip(OrElse(name_in, <<>>))
    IN  /\ SchemaReady
        /\ IF name = <<>>
              THEN /\ status = 400
                   /\ UNCHANGED <<models, nextModelId>>
              ELSE /\ nextModelId <= MaxModelId
                   /\ status = 200
                   /\ models' = Append(SelectSeq(models, LAMBDA m : m.name # name),
                                       [id |-> nextModelId, name |-> name,
                                        created_at |-> UtcNow])
                   /\ nextModelId' = nextModelId + 1
        /\ ModelsFrame

CreateModel(name_in, status) ==
    LET name == Strip(OrElse(name_in, <<>>))
    IN  /\ SchemaReady
        /\ IF name = <<>>
              THEN /\ status = 400
                   /\ UNCHANGED <<models, nextModelId>>
              ELSE IF name \in ModelNames
                      THEN /\ status = 400
                           /\ UNCHANGED <<models, nextModelId>>
                      ELSE /\ nextModelId <= MaxModelId
                           /\ status = 200
                           /\ models' = Append(models, [id |-> nextModelId, name |-> name,
                                                        created_at |-> UtcNow])
                           /\ nextModelId' = nextModelId + 1
        /\ ModelsFrame

UpdateModel(model_id, name_in, status) ==
    LET name == Strip(OrElse(name_in, <<>>))
        taken == \E i \in 1 .. Len(models) : models[i].name = name /\ models[i].id # model_id
    IN  /\ SchemaReady
        /\ IF name = <<>>
              THEN /\ status = 400
                   /\ models' = models
              ELSE IF model_id \notin ModelIds
                      THEN /\ status = 404
                           /\ models' = models
                      ELSE IF taken
                              THEN /\ status = 400
                                   /\ models' = models
                              ELSE /\ status = 200
                                   /\ models' = [i \in 1 .. Len(models) |->
                                                    IF models[i].id = model_id
                                                        THEN [models[i] EXCEPT !.name = name]
                                                        ELSE models[i]]
        /\ nextModelId' = nextModelId
        /\ ModelsFrame

DeleteModel(model_id, status) ==
    /\ SchemaReady
    /\ IF model_id \notin ModelIds
          THEN /\ status = 404
               /\ models' = models
          ELSE /\ status = 200
               /\ models' = DeleteModelRow(models, model_id)
    /\ nextModelId' = nextModelId
    /\ ModelsFrame

(* ------------------------- prompt construction ------------------------ *)

UseAgent(model_name) == StartsWith(model_name, AgentMarker)

TurnLine(role, text) ==
    (IF role = "user" THEN UserLabel ELSE AssistantLabel) \o <<":", " ">> \o text

TranscriptOldestTurns(history, content) ==
    LET window == SubSeq(history, 1, Min(HistoryWindow, Len(history)))
        turns == [i \in 1 .. Len(window) |-> TurnLine(window[i].role, window[i].content)]
    IN  JoinLines(turns \o <<TurnLine("user", content)>>)

Transcript(history, content) ==
    LET window == LastN(history, HistoryWindow)
        turns == [i \in 1 .. Len(window) |-> TurnLine(window[i].role, window[i].content)]
    IN  JoinLines(turns \o <<TurnLine("user", content)>>)

PreparedMessage(content, previous, history) ==
    IF previous = "" /\ history # <<>> THEN Transcript(history, content) ELSE content

StatelessPrompt(content, history) ==
    IF history # <<>> THEN Transcript(history, content) ELSE content

AutoTitleUntrimmed(content) == OrElse(Prefix(content, TitlePrefixLen), NewChatTitle)

AutoTitle(content) == OrElse(Strip(Prefix(content, TitlePrefixLen)), NewChatTitle)

(* --------------------------- request steps ---------------------------- *)

Set(p, fields) == reqs' = [reqs EXCEPT ![p] = fields @@ reqs[p]]

Raise(p, status) == Set(p, [pc |-> "failed", status |-> status])

(* One call of the hosted API as the adapter sees it: a reply, or an        *)
(* exception; error is "" for a reply and names what the SDK raised        *)
(* otherwise.                                                              *)
Call(api, session, input, ok, output) ==
    [api |-> api, session |-> session, input |-> input, ok |-> ok, output |-> output,
     error |-> IF ok THEN "" ELSE "error"]

(* What a send to a long-running agent session can raise: a transient call *)
(* failure, the job ending in a terminal state, the job not finishing in   *)
(* time.                                                                   *)
JobErrors == {"error", "failed", "timeout"}

Raised(api, session, input, error) ==
    [api |-> api, session |-> session, input |-> input, ok |-> FALSE, output |-> <<>>,
     error |-> error]

Logged(p, call) == Append(reqs[p].calls, call)

DbUnchanged == UNCHANGED <<chats, nextChatId, messages, nextMsgId, models, nextModelId, client>>

SendMessageBegin(p, chat_id, content_in, model_in) ==
    LET content == Strip(OrElse(content_in, <<>>))
        model_name == Strip(OrElse(model_in, <<>>))
    IN  /\ reqs[p].pc = "idle"
        /\ nextMsgId + 1 <= MaxMsgs
        /\ IF content = <<>> \/ model_name = <<>>
              THEN Raise(p, 400)
              ELSE IF ~ChatExists(chat_id)
                      THEN Raise(p, 404)
                      ELSE Set(p, [pc |-> "insert_user", chat_id |-> chat_id,
                                   content |-> content, model_name |-> model_name,
                                   title |-> chats[chat_id].title,
                                   previous |-> chats[chat_id].interaction_id])
        /\ DbUnchanged
        /\ UNCHANGED <<now, env>>

InsertUserMessageSetsTitle(p) ==
    LET r == reqs[p]
    IN  /\ r.pc = "insert_user"
        /\ messages' = Append(messages, MessageRow(r.chat_id, "user", r.content))
        /\ nextMsgId' = nextMsgId + 1
        /\ chats' = IF ChatExists(r.chat_id) /\ r.title = NewChatTitle
                        THEN UpdateChat(r.chat_id, [title |-> AutoTitle(r.content)])
                        ELSE chats
        /\ Set(p, [pc |-> "fetch_history", user_msg_id |-> nextMsgId])
        /\ UNCHANGED <<nextChatId, now, env, models, nextModelId, client>>

InsertUserMessage(p) ==
    /\ reqs[p].pc = "insert_user"
    /\ messages' = Append(messages, MessageRow(reqs[p].chat_id, "user", reqs[p].content))
    /\ nextMsgId' = nextMsgId + 1
    /\ Set(p, [pc |-> "fetch_history", user_msg_id |-> nextMsgId])
    /\ UNCHANGED <<chats, nextChatId, now, env, models, nextModelId, client>>

FetchHistory(p) ==
    LET rows == FetchMessages(reqs[p].chat_id)
        history == [i \in 1 .. Len(rows) |->
                        [role |-> rows[i].role, content |-> rows[i].content]]
    IN  /\ reqs[p].pc = "fetch_history"
        /\ Set(p, [pc |-> "ensure_api_key", history |-> history])
        /\ DbUnchanged
        /\ UNCHANGED <<now, env>>

(* ------------------------- _run_interaction --------------------------- *)

EnsureApiKey(p) ==
    LET r == reqs[p]
        key == env.GEMINI_API_KEY \/ env.GOOGLE_API_KEY
    IN  /\ r.pc = "ensure_api_key"
        /\ IF ~key
              THEN /\ Raise(p, 500)
                   /\ env' = env
              ELSE /\ env' = [env EXCEPT !.GOOGLE_API_KEY = TRUE]
                   /\ IF UseAgent(r.model_name)
                         THEN IF r.previous = ""
                                 THEN Set(p, [pc |-> "create_session"])
                                 ELSE Set(p, [pc |-> "agent_send",
                                              session_id |-> r.previous,
                                              message_to_send |->
                                                  PreparedMessage(r.content, r.previous,
                                                                  r.history)])
                         ELSE \E interactions \in BOOLEAN :
                                 IF interactions
                                     THEN Set(p, [pc |-> "interactions_create"])
                                     ELSE Set(p, [pc |-> "generate_content"])
        /\ DbUnchanged
        /\ UNCHANGED <<now>>

AdapterFrame == DbUnchanged /\ UNCHANGED <<now, env>>

(* The hosted API names every session and every interaction it creates    *)
(* with an identifier of its own choosing that it has not handed out       *)
(* before; which one is immaterial, so the first unused one stands for it. *)

KnownRefs(p) ==
    {chats[c].interaction_id : c \in DOMAIN chats}
        \cup {reqs[q].previous : q \in Procs} \cup {reqs[q].session_id : q \in Procs}

FreshRef(p, ids) == CHOOSE id \in ids : id \notin KnownRefs(p)

CreateSessionStoresRef(p) ==
    LET r == reqs[p]
        sid == FreshRef(p, SessionIds)
    IN  /\ r.pc = "create_session"
        /\ \/ /\ Set(p, [pc |-> "agent_send", session_id |-> sid,
                         message_to_send |->
                             PreparedMessage(r.content, r.previous, r.history),
                         calls |-> Logged(p, Call("create_session", sid, r.model_name,
                                                  TRUE, <<>>))])
              /\ chats' = IF ChatExists(r.chat_id)
                              THEN UpdateChat(r.chat_id, [interaction_id |-> sid])
                              ELSE chats
           \/ /\ Set(p, [pc |-> "failed", status |-> 500,
                         calls |-> Logged(p, Call("create_session", "", r.model_name,
                                                  FALSE, <<>>))])
              /\ chats' = chats
        /\ UNCHANGED <<nextChatId, messages, nextMsgId, now, env, models, nextModelId, client>>

CreateSession(p) ==
    LET r == reqs[p]
        sid == FreshRef(p, SessionIds)
    IN  /\ r.pc = "create_session"
        /\ \/ Set(p, [pc |-> "agent_send", session_id |-> sid,
                      message_to_send |->
                          PreparedMessage(r.content, r.previous, r.history),
                      calls |-> Logged(p, Call("create_session", sid, r.model_name, TRUE, <<>>))])
           \/ Set(p, [pc |-> "failed", status |-> 500,
                      calls |-> Logged(p, Call("create_session", "", r.model_name, FALSE, <<>>))])
        /\ AdapterFrame

AgentSend(p) ==
    LET r == reqs[p]
    IN  /\ r.pc = "agent_send"
        /\ \/ \E text \in ReplyTexts :
                Set(p, [pc |-> "check_reply", interaction_id |-> r.session_id,
                        text |-> text,
                        calls |-> Logged(p, Call("send_message", r.session_id,
                                                 r.message_to_send, TRUE, text))])
           \/ \E err \in JobErrors :
                Set(p, [pc |-> "retry_create_session",
                        calls |-> Logged(p, Raised("send_message", r.session_id,
                                                   r.message_to_send, err))])
        /\ AdapterFrame

RetryCreateSession(p) ==
    LET r == reqs[p]
        sid == FreshRef(p, SessionIds)
    IN  /\ r.pc = "retry_create_session"
        /\ \/ Set(p, [pc |-> "retry_send", session_id |-> sid,
                      calls |-> Logged(p, Call("create_session", sid, r.model_name, TRUE, <<>>))])
           \/ Set(p, [pc |-> "generate_content",
                      calls |-> Logged(p, Call("create_session", "", r.model_name, FALSE, <<>>))])
        /\ AdapterFrame

RetrySendNewTextOnly(p) ==
    LET r == reqs[p]
    IN  /\ r.pc = "retry_send"
        /\ \/ \E text \in ReplyTexts :
                Set(p, [pc |-> "check_reply", interaction_id |-> r.session_id,
                        text |-> text,
                        calls |-> Logged(p, Call("send_message", r.session_id,
                                                 r.content, TRUE, text))])
           \/ \E err \in JobErrors :
                Set(p, [pc |-> "generate_content",
                        calls |-> Logged(p, Raised("send_message", r.session_id,
                                                   r.content, err))])
        /\ AdapterFrame

RetrySend(p) ==
    LET r == reqs[p]
    IN  /\ r.pc = "retry_send"
        /\ \/ \E text \in ReplyTexts :
                Set(p, [pc |-> "check_reply", interaction_id |-> r.session_id,
                        text |-> text,
                        calls |-> Logged(p, Call("send_message", r.session_id,
                                                 r.message_to_send, TRUE, text))])
           \/ \E err \in JobErrors :
                Set(p, [pc |-> "generate_content",
                        calls |-> Logged(p, Raised("send_message", r.session_id,
                                                   r.message_to_send, err))])
        /\ AdapterFrame

InteractionsCreateRetries(p) ==
    LET r == reqs[p]
        prepared_input == PreparedMessage(r.content, r.previous, r.history)
    IN  /\ r.pc = "interactions_create"
        /\ \/ \E id \in {"", FreshRef(p, InteractionIds)}, text \in ReplyTexts :
                Set(p, [pc |-> "check_reply", interaction_id |-> id, text |-> text,
                        calls |-> Logged(p, Call("interactions.create", r.previous,
                                                 prepared_input, TRUE, text))])
           \/ Set(p, [pc |-> IF r.calls = <<>> THEN "interactions_create"
                                               ELSE "generate_content",
                      calls |-> Logged(p, Call("interactions.create", r.previous,
                                               prepared_input, FALSE, <<>>))])
        /\ AdapterFrame

InteractionsCreate(p) ==
    LET r == reqs[p]
        prepared_input == PreparedMessage(r.content, r.previous, r.history)
    IN  /\ r.pc = "interactions_create"
        /\ \/ \E id \in {"", FreshRef(p, InteractionIds)}, text \in ReplyTexts :
                Set(p, [pc |-> "check_reply", interaction_id |-> id, text |-> text,
                        calls |-> Logged(p, Call("interactions.create", r.previous,
                                                 prepared_input, TRUE, text))])
           \/ Set(p, [pc |-> "generate_content",
                      calls |-> Logged(p, Call("interactions.create", r.previous,
                                               prepared_input, FALSE, <<>>))])
        /\ AdapterFrame

GenerateContentKeepsSession(p) ==
    LET r == reqs[p]
        prompt == StatelessPrompt(r.content, r.history)
    IN  /\ r.pc = "generate_content"
        /\ \/ \E text \in ReplyTexts :
                Set(p, [pc |-> "check_reply", interaction_id |-> r.session_id,
                        text |-> text,
                        calls |-> Logged(p, Call("generate_content", "", prompt, TRUE, text))])
           \/ Set(p, [pc |-> "failed", status |-> 500,
                      calls |-> Logged(p, Call("generate_content", "", prompt, FALSE, <<>>))])
        /\ AdapterFrame

GenerateContent(p) ==
    LET r == reqs[p]
        prompt == StatelessPrompt(r.content, r.history)
    IN  /\ r.pc = "generate_content"
        /\ \/ \E text \in ReplyTexts :
                Set(p, [pc |-> "check_reply", interaction_id |-> "", text |-> text,
                        calls |-> Logged(p, Call("generate_content", "", prompt, TRUE, text))])
           \/ Set(p, [pc |-> "failed", status |-> 500,
                      calls |-> Logged(p, Call("generate_content", "", prompt, FALSE, <<>>))])
        /\ AdapterFrame

CheckReplyEmptyOnly(p) ==
    /\ reqs[p].pc = "check_reply"
    /\ IF reqs[p].text = <<>>
          THEN Raise(p, 502)
          ELSE Set(p, [pc |-> "commit"])
    /\ AdapterFrame

CheckReply(p) ==
    /\ reqs[p].pc = "check_reply"
    /\ IF Strip(reqs[p].text) = <<>>
          THEN Raise(p, 502)
          ELSE Set(p, [pc |-> "commit"])
    /\ AdapterFrame

(* ------------------------ send_message, reply ------------------------- *)

CommitReplyWithoutInsert(p) ==
    LET r == reqs[p]
        c == r.chat_id
    IN  /\ r.pc = "commit"
        /\ messages' = messages
        /\ nextMsgId' = nextMsgId + 1
        /\ IF ChatExists(c)
              THEN /\ chats' = UpdateChat(c,
                                 IF r.title = NewChatTitle
                                     THEN [title |-> AutoTitle(r.content),
                                           interaction_id |-> r.interaction_id,
                                           last_model |-> r.model_name,
                                           updated_at |-> UtcNow]
                                     ELSE [interaction_id |-> r.interaction_id,
                                           last_model |-> r.model_name,
                                           updated_at |-> UtcNow])
                   /\ Set(p, [pc |-> "done", status |-> 200])
              ELSE /\ chats' = chats
                   /\ Set(p, [pc |-> "failed", status |-> 500])
        /\ UNCHANGED <<nextChatId, now, env, models, nextModelId, client>>

CommitReply(p) ==
    LET r == reqs[p]
        c == r.chat_id
    IN  /\ r.pc = "commit"
        /\ messages' = Append(messages, MessageRow(c, "model", r.text))
        /\ nextMsgId' = nextMsgId + 1
        /\ IF ChatExists(c)
              THEN /\ chats' = UpdateChat(c,
                                 IF r.title = NewChatTitle
                                     THEN [title |-> AutoTitle(r.content),
                                           interaction_id |-> r.interaction_id,
                                           last_model |-> r.model_name,
                                           updated_at |-> UtcNow]
                                     ELSE [interaction_id |-> r.interaction_id,
                                           last_model |-> r.model_name,
                                           updated_at |-> UtcNow])
                   /\ Set(p, [pc |-> "done", status |-> 200])
              ELSE /\ chats' = chats
                   /\ Set(p, [pc |-> "failed", status |-> 500])
        /\ UNCHANGED <<nextChatId, now, env, models, nextModelId, client>>

Respond(p) ==
    /\ reqs[p].pc \in {"done", "failed"}
    /\ reqs' = [reqs EXCEPT ![p] = IdleReq]
    /\ DbUnchanged
    /\ UNCHANGED <<now, env>>

(* --------------------------- specification ---------------------------- *)

(* The adapter reads and writes no table: every step from the first call   *)
(* of _run_interaction to the reply of send_message commutes with every    *)
(* storage request of another handler. A storage request that arrives      *)
(* while a send_message waits on the model is therefore taken just before  *)
(* the model call starts (pc = "ensure_api_key"), and a request that has   *)
(* entered the adapter runs to its response without interruption.          *)

InAdapter(p) ==
    reqs[p].pc \in {"create_session", "agent_send", "retry_create_session", "retry_send",
                    "interactions_create", "generate_content", "check_reply", "commit",
                    "done", "failed"}

Next ==
    \/ \E p \in Procs : CreateSession(p)
    \/ \E p \in Procs : AgentSend(p)
    \/ \E p \in Procs : RetryCreateSession(p)
    \/ \E p \in Procs : RetrySend(p)
    \/ \E p \in Procs : InteractionsCreate(p)
    \/ \E p \in Procs : GenerateContent(p)
    \/ \E p \in Procs : CheckReply(p)
    \/ \E p \in Procs : CommitReply(p)
    \/ \E p \in Procs : Respond(p)
    \/ /\ \A p \in Procs : ~InAdapter(p)
       /\ \/ Tick
          \/ \E t \in CreateTitleInputs, m \in CreateModelInputs : CreateChat(t, m)
          \/ \E c \in ChatIdInputs, st \in Statuses : DeleteChat(c, st)
          \/ \E c \in ChatIdInputs, t \in RenameTitleInputs, st \in Statuses :
                RenameChat(c, t, st)
          \/ \E c \in ChatIdInputs, st \in Statuses : ArchiveChat(c, st) /\ UNCHANGED client
          \/ \E c \in ChatIdInputs, st \in Statuses : RestoreChat(c, st) /\ UNCHANGED client
          \/ \E p \in Procs, c \in ChatIdInputs, t \in ContentInputs, m \in ModelInputs :
                SendMessageBegin(p, c, t, m)
          \/ \E p \in Procs : InsertUserMessage(p)
          \/ \E p \in Procs : FetchHistory(p)
          \/ \E p \in Procs : EnsureApiKey(p)

Spec == Init /\ [][Next]_vars

(* The models table is read and written by the startup hook and the model  *)
(* routes only, and they touch nothing else; they are explored on their    *)
(* own, from a new database file that no startup has initialised yet.      *)

InitModels ==
    /\ chats = <<>>
    /\ nextChatId = 1
    /\ messages = <<>>
    /\ nextMsgId = 1
    /\ now = 0
    /\ env = [GEMINI_API_KEY |-> TRUE, GOOGLE_API_KEY |-> FALSE]
    /\ reqs = [p \in Procs |-> IdleReq]
    /\ models = <<>>
    /\ nextModelId = 1
    /\ client = IdleClient

NextModels ==
    \/ Tick
    \/ InitDb
    \/ \E n \in ModelNameInputs, st \in Statuses : CreateModel(n, st) /\ Answer(st)
    \/ \E id \in ModelIdInputs, n \in ModelNameInputs, st \in Statuses :
          UpdateModel(id, n, st) /\ Answer(st)
    \/ \E id \in ModelIdInputs, st \in Statuses : DeleteModel(id, st) /\ Answer(st)

SpecModels == InitModels /\ [][NextModels]_vars

(* The prompt builders are explored on histories longer than the window:  *)
(* a chat that holds n stored turns, numbered so that each is told from    *)
(* the others, and a send_message that has just stored its user message.   *)

Digit == <<"0", "1", "2", "3", "4", "5", "6", "7", "8", "9">>

TurnText(k) == <<"t", Digit[(k \div 10) + 1], Digit[(k % 10) + 1]>>

StoredTurns(n, content) ==
    [k \in 1 .. (n + 1) |->
        [id |-> k, chat_id |-> 1,
         role |-> IF k = n + 1 \/ k % 2 = 1 THEN "user" ELSE "model",
         content |-> IF k = n + 1 THEN content ELSE TurnText(k)]]

InitWindow ==
    \E n \in 0 .. MaxHistory, previous \in {"", "s1"},
       model_name \in {AgentModel, PlainModel} :
        /\ chats = (1 :> [title |-> MineTitle, interaction_id |-> previous,
                          last_model |-> model_name, archived |-> 0,
                          created_at |-> 0, updated_at |-> 0])
        /\ nextChatId = 2
        /\ messages = StoredTurns(n, OkReply)
        /\ nextMsgId = n + 2
        /\ now = 0
        /\ env = [GEMINI_API_KEY |-> TRUE, GOOGLE_API_KEY |-> FALSE]
        /\ reqs = [p \in Procs |->
                      [IdleReq EXCEPT !.pc = "fetch_history", !.chat_id = 1,
                                      !.content = OkReply, !.model_name = model_name,
                                      !.title = MineTitle, !.previous = previous,
                                      !.user_msg_id = n + 1]]
        /\ models = SeedRows(1, 0)
        /\ nextModelId = Len(DefaultModels) + 1
        /\ client = IdleClient

NextWindow ==
    \/ \E p \in Procs : FetchHistory(p)
    \/ \E p \in Procs : EnsureApiKey(p)
    \/ \E p \in Procs : CreateSession(p)
    \/ \E p \in Procs : AgentSend(p)
    \/ \E p \in Procs : RetryCreateSession(p)
    \/ \E p \in Procs : RetrySend(p)
    \/ \E p \in Procs : InteractionsCreate(p)
    \/ \E p \in Procs : GenerateContent(p)
    \/ \E p \in Procs : CheckReply(p)
    \/ \E p \in Procs : CommitReply(p)
    \/ \E p \in Procs : Respond(p)

SpecWindow == InitWindow /\ [][NextWindow]_vars

(* A caller that reads the active list and one active chat, archives the   *)
(* chat and restores it, while time passes and nothing else is requested.  *)

Observe(chat_id) ==
    /\ client.pc = "idle"
    /\ \A p \in Procs : reqs[p].pc = "idle"
    /\ ChatExists(chat_id)
    /\ chats[chat_id].archived = 0
    /\ client' = [client EXCEPT !.pc = "observed", !.chat_id = chat_id,
                                !.list = ListChats,
                                !.row = GetChat(chat_id).chat,
                                !.history = GetChat(chat_id).messages]
    /\ UNCHANGED <<chats, nextChatId, messages, nextMsgId, now, env, reqs, models, nextModelId>>

ClientArchive(status) ==
    /\ client.pc = "observed"
    /\ ArchiveChat(client.chat_id, status)
    /\ client' = [client EXCEPT !.pc = "archived"]

ClientRestore(status) ==
    /\ client.pc = "archived"
    /\ RestoreChat(client.chat_id, status)
    /\ client' = [client EXCEPT !.pc = "restored"]

ClientForget ==
    /\ client.pc = "restored"
    /\ client' = IdleClient
    /\ UNCHANGED <<chats, nextChatId, messages, nextMsgId, now, env, reqs, models, nextModelId>>

NextArchive ==
    \/ client.pc = "idle" /\ Next
    \/ client.pc \in {"observed", "archived"} /\ Tick
    \/ \E c \in ChatIdInputs : Observe(c)
    \/ \E st \in Statuses : ClientArchive(st)
    \/ \E st \in Statuses : ClientRestore(st)
    \/ ClientForget

SpecArchive == Init /\ [][NextArchive]_vars

(* ------------------------------ claims -------------------------------- *)

Rows == {messages[i] : i \in 1 .. Len(messages)}

HasModelReply(c) == \E m \in Rows : m.chat_id = c /\ m.role = "model"

IsBlank(text) == \A i \in 1 .. Len(text) : text[i] \in Whitespace

Last(s) == s[Len(s)]

CommitStep(p) == reqs[p].pc = "commit" /\ reqs'[p].pc \in {"done", "failed"}

IsTrimmedPrefix(title, text) ==
    LET n == Min(TitlePrefixLen, Len(text))
    IN  \E k \in 1 .. n :
            /\ title = SubSeq(text, 1, k)
            /\ text[1] \notin Whitespace
            /\ text[k] \notin Whitespace
            /\ \A j \in (k + 1) .. n : text[j] \in Whitespace

(* C1, as stated: a chat's interaction reference is empty exactly when no  *)
(* model reply has been stored for the chat.                               *)
C1_RefEmptyIffNoReply ==
    \A c \in DOMAIN chats : (chats[c].interaction_id = "") <=> ~HasModelReply(c)

(* C1, amended: a chat whose interaction reference is not empty has a      *)
(* stored model reply; a chat with no completed turn has the empty         *)
(* reference. The converse fails: a stateless turn stores a reply and the  *)
(* empty reference.                                                        *)
C1_RefImpliesReply ==
    \A c \in DOMAIN chats : chats[c].interaction_id # "" => HasModelReply(c)

C1_Witness ==
    \E c \in DOMAIN chats : chats[c].interaction_id \in SessionIds /\ HasModelReply(c)

(* C6: a reply that is empty or whitespace-only, from whichever call it    *)
(* came, ends the request with status 502 and no model row is stored: no   *)
(* stored model row is blank, and the step that examines a blank reply     *)
(* fails the request and leaves the messages table alone.                  *)
C6_BlankReplyFails ==
    /\ \A m \in Rows : m.role = "model" => ~IsBlank(m.content)
    /\ \A p \in Procs :
          (reqs[p].pc = "failed" /\ reqs[p].calls # <<>> /\ Last(reqs[p].calls).ok
              /\ IsBlank(reqs[p].text))
          => /\ reqs[p].status = 502
             /\ \A m \in Rows : m.role = "model" => m.id < reqs[p].user_msg_id

C6_Witness ==
    \E p \in Procs :
        /\ reqs[p].pc = "failed"
        /\ reqs[p].status = 502
        /\ reqs[p].text # <<>>
        /\ IsBlank(reqs[p].text)
        /\ Len(reqs[p].calls) = 4
        /\ Last(reqs[p].calls).api = "send_message"

(* C8: when the reply of a turn arrives for a chat whose title was read as *)
(* "New Chat", the stored title is the first 60 characters of the turn's   *)
(* text with surrounding whitespace removed, at most 60 characters long.   *)
C8_TitleIsTrimmedPrefix ==
    [][\A p \in Procs :
          (CommitStep(p) /\ reqs[p].title = NewChatTitle /\ ChatExists(reqs[p].chat_id))
          => /\ IsTrimmedPrefix(chats'[reqs[p].chat_id].title, reqs[p].content)
             /\ Len(chats'[reqs[p].chat_id].title) <= TitlePrefixLen]_vars

C8_Witness ==
    \E p \in Procs :
        /\ reqs[p].pc = "done"
        /\ reqs[p].title = NewChatTitle
        /\ Len(reqs[p].content) > TitlePrefixLen
        /\ ChatExists(reqs[p].chat_id)
        /\ chats[reqs[p].chat_id].title = SubSeq(reqs[p].content, 1, TitlePrefixLen - 1)

(* C10: delete_chat of an existing chat answers 200, removes the chat row  *)
(* and every message row of that chat and nothing else; for an id with no  *)
(* chat row it answers 404 and changes no row of any table.                *)
C10_DeleteChat ==
    [][\A c \in ChatIdInputs, st \in Statuses :
          DeleteChat(c, st)
          => IF ChatExists(c)
                THEN /\ st = 200
                     /\ c \notin DOMAIN chats'
                     /\ \A i \in 1 .. Len(messages') : messages'[i].chat_id # c
                     /\ \A d \in DOMAIN chats \ {c} : d \in DOMAIN chats' /\ chats'[d] = chats[d]
                     /\ \A m \in Rows : m.chat_id # c =>
                            \E i \in 1 .. Len(messages') : messages'[i] = m
                ELSE /\ st = 404
                     /\ chats' = chats
                     /\ messages' = messages]_vars

C10_Witness ==
    /\ nextChatId > 1
    /\ chats = <<>>
    /\ nextMsgId > 1
    /\ messages = <<>>

ModelCallPcs ==
    {"ensure_api_key", "create_session", "agent_send", "retry_create_session",
     "retry_send", "interactions_create", "generate_content", "check_reply"}

UserRowStored(p) ==
    \E m \in Rows :
        /\ m.id = reqs[p].user_msg_id
        /\ m.chat_id = reqs[p].chat_id
        /\ m.role = "user"
        /\ m.content = reqs[p].content

SendCalls(calls) == {i \in 1 .. Len(calls) : calls[i].api = "send_message"}

FailedSends(calls) == {i \in SendCalls(calls) : ~calls[i].ok}

SendsAreOneRetry(calls) ==
    /\ Cardinality(SendCalls(calls)) <= 2
    /\ \A i, j \in SendCalls(calls) :
          i < j => /\ ~calls[i].ok
                   /\ calls[j].input = calls[i].input
                   /\ calls[j].session # calls[i].session
                   /\ j = i + 2
                   /\ calls[i + 1].api = "create_session"
                   /\ calls[i + 1].ok
                   /\ calls[i + 1].session = calls[j].session

(* C2: the user message is stored before the model call begins; a model   *)
(* call that fails (missing credential, an error of the hosted API, an     *)
(* empty reply) removes no message row, so the user message of a chat that *)
(* still exists stays stored, and no step of send_message before the       *)
(* reply is committed writes any chat row (interaction reference, title,   *)
(* last model, updated-at).                                                *)
C2_FailedCallLeavesChat ==
    [][\A p \in Procs :
          /\ (reqs[p].pc \in ModelCallPcs /\ ChatExists(reqs[p].chat_id))
                => UserRowStored(p)
          /\ (reqs[p].pc \in ModelCallPcs \cup {"idle", "insert_user", "fetch_history"}
                /\ reqs'[p] # reqs[p])
                => chats' = chats
          /\ (reqs[p].pc \in ModelCallPcs /\ reqs'[p].pc = "failed")
                => /\ messages' = messages
                   /\ reqs'[p].status \in {500, 502}]_vars

C2_Witness ==
    \E p \in Procs :
        /\ reqs[p].pc = "failed"
        /\ reqs[p].calls # <<>>
        /\ ~Last(reqs[p].calls).ok
        /\ ChatExists(reqs[p].chat_id)
        /\ UserRowStored(p)
        /\ Last(messages).id = reqs[p].user_msg_id
        /\ chats[reqs[p].chat_id].title = NewChatTitle
        /\ chats[reqs[p].chat_id].interaction_id = ""
        /\ chats[reqs[p].chat_id].last_model = NULL
        /\ chats[reqs[p].chat_id].updated_at < now

(* C3, as stated: with credentials present, an agentic turn fails only    *)
(* when the final stateless call fails or the final reply is empty; no     *)
(* failed session creation or session send is the last call of a turn.     *)
C3_OnlyFinalFailureSurfaces ==
    \A p \in Procs :
        (reqs[p].pc = "failed" /\ UseAgent(reqs[p].model_name) /\ reqs[p].calls # <<>>
            /\ (~Last(reqs[p].calls).ok \/ IsBlank(reqs[p].text)))
        => \/ Last(reqs[p].calls).api = "generate_content" /\ ~Last(reqs[p].calls).ok
           \/ Last(reqs[p].calls).ok /\ IsBlank(reqs[p].text) /\ reqs[p].status = 502

(* C4, as stated: an agentic turn makes at most two session sends; the    *)
(* second goes to a newly created session with the message of the first;   *)
(* the stateless call comes only after two failed sends.                   *)
C4_StatelessAfterTwoSends ==
    \A p \in Procs :
        UseAgent(reqs[p].model_name) =>
            /\ SendsAreOneRetry(reqs[p].calls)
            /\ \A g \in 1 .. Len(reqs[p].calls) :
                  reqs[p].calls[g].api = "generate_content"
                  => Cardinality({i \in FailedSends(reqs[p].calls) : i < g}) = 2

(* C4, amended: at most two session sends, the second to a newly created  *)
(* session with the message of the first; a failed first send is followed  *)
(* by one session creation; the stateless call comes only after the first  *)
(* send failed and the retry failed, in its session creation or in its     *)
(* resend.                                                                 *)
C4_StatelessAfterFailedRetry ==
    \A p \in Procs :
        LET calls == reqs[p].calls
        IN  UseAgent(reqs[p].model_name) =>
                /\ SendsAreOneRetry(calls)
                /\ \A i \in FailedSends(calls) :
                      (i < Len(calls) /\ \A k \in SendCalls(calls) : i <= k)
                      => calls[i + 1].api = "create_session"
                /\ \A g \in 1 .. Len(calls) :
                      calls[g].api = "generate_content"
                      => /\ g > 2
                         /\ ~calls[g - 1].ok
                         /\ \E i \in FailedSends(calls) : i < g - 1 \/ i = g - 1
                         /\ \/ /\ calls[g - 1].api = "create_session"
                               /\ Cardinality(FailedSends(calls)) = 1
                               /\ calls[g - 2].api = "send_message"
                            \/ /\ calls[g - 1].api = "send_message"
                               /\ Cardinality(FailedSends(calls)) = 2

C4_Witness ==
    \E p \in Procs :
        /\ reqs[p].pc = "commit"
        /\ reqs[p].previous \in SessionIds
        /\ Cardinality(FailedSends(reqs[p].calls)) = 2
        /\ Len(reqs[p].history) > 1
        /\ Last(reqs[p].calls).api = "generate_content"

(* C5: when both session sends of an agentic turn failed and the stateless *)
(* call returned a non-blank reply, the commit stores one model row whose  *)
(* content is that reply and sets the chat's interaction reference to the  *)
(* empty string.                                                           *)
C5_StatelessReplyStored ==
    [][\A p \in Procs :
          (CommitStep(p) /\ UseAgent(reqs[p].model_name)
              /\ Cardinality(FailedSends(reqs[p].calls)) = 2)
          => /\ Last(reqs[p].calls).api = "generate_content"
             /\ messages' = Append(messages,
                               [id |-> nextMsgId, chat_id |-> reqs[p].chat_id,
                                role |-> "model",
                                content |-> Last(reqs[p].calls).output])
             /\ ~IsBlank(Last(reqs[p].calls).output)
             /\ ChatExists(reqs[p].chat_id)
                    => chats'[reqs[p].chat_id].interaction_id = ""]_vars

C5_Witness ==
    \E p \in Procs :
        /\ reqs[p].pc = "done"
        /\ Cardinality(FailedSends(reqs[p].calls)) = 2
        /\ reqs[p].previous \in SessionIds
        /\ chats[reqs[p].chat_id].interaction_id = ""
        /\ Last(messages).role = "model"
        /\ Last(messages).content = OkReply

(* C7, as stated: for an agentic model, an empty previous reference and    *)
(* two prior stored turns, the message sent to the session is the two      *)
(* prior turns as labelled lines followed by the new user line.            *)
C7_TranscriptIsPriorTurnsThenNew ==
    \A p \in Procs :
        LET r == reqs[p]
        IN  (UseAgent(r.model_name) /\ r.previous = "" /\ Len(r.history) = 3
                /\ r.history[3] = [role |-> "user", content |-> r.content])
            => \A i \in SendCalls(r.calls) :
                  r.calls[i].input =
                      JoinLines(<<TurnLine(r.history[1].role, r.history[1].content),
                                  TurnLine(r.history[2].role, r.history[2].content),
                                  TurnLine("user", r.content)>>)

(* C9, as stated: the first reply of a chat still titled "New Chat" sets   *)
(* the title to the prefix of the first user message stored in the chat.   *)
C9_TitleFromFirstStoredMessage ==
    [][\A p \in Procs :
          (CommitStep(p) /\ ChatExists(reqs[p].chat_id)
              /\ reqs[p].title = NewChatTitle
              /\ chats[reqs[p].chat_id].title = NewChatTitle
              /\ ~HasModelReply(reqs[p].chat_id))
          => IsTrimmedPrefix(chats'[reqs[p].chat_id].title,
                             FetchMessages(reqs[p].chat_id)[1].content)]_vars

(* C9, amended: a chat titled "New Chat" keeps that title until it is      *)
(* renamed or the reply of a turn that read the title as "New Chat" is     *)
(* committed; that commit sets the title to the trimmed 60-character       *)
(* prefix of the user message of that same turn; the commit of a turn that *)
(* read another title leaves the stored title alone.                       *)
C9_TitleFromReplyingTurn ==
    [][/\ \A c \in DOMAIN chats \cap DOMAIN chats' :
             (chats[c].title = NewChatTitle /\ chats'[c].title # NewChatTitle)
             => \/ \E t \in RenameTitleInputs, st \in Statuses : RenameChat(c, t, st)
                \/ \E p \in Procs :
                      /\ CommitStep(p)
                      /\ reqs[p].chat_id = c
                      /\ reqs[p].title = NewChatTitle
                      /\ IsTrimmedPrefix(chats'[c].title, reqs[p].content)
       /\ \A p \in Procs :
             (CommitStep(p) /\ ChatExists(reqs[p].chat_id)
                 /\ reqs[p].title # NewChatTitle)
             => chats'[reqs[p].chat_id].title = chats[reqs[p].chat_id].title]_vars

C9_Witness ==
    \E p \in Procs :
        /\ reqs[p].pc = "done"
        /\ reqs[p].title = NewChatTitle
        /\ ChatExists(reqs[p].chat_id)
        /\ FetchMessages(reqs[p].chat_id)[1].role = "user"
        /\ FetchMessages(reqs[p].chat_id)[1].content # reqs[p].content
        /\ ~IsTrimmedPrefix(chats[reqs[p].chat_id].title,
                            FetchMessages(reqs[p].chat_id)[1].content)
        /\ IsTrimmedPrefix(chats[reqs[p].chat_id].title, reqs[p].content)

StoredNames == [i \in 1 .. Len(models) |-> models[i].name]

(* The name each input of the model routes stands for once trimmed. *)
TrimmedName == [n \in ModelNameInputs |-> Strip(OrElse(n, <<>>))]

(* C12: create_model, or update_model of an existing model, with a name    *)
(* (after trimming) that another model row holds answers 400 and leaves    *)
(* the models table as it was: same rows, ids, names, and next id.         *)
C12_DuplicateNameConflict ==
    [][/\ \A n \in ModelNameInputs :
             (/\ TrimmedName[n] \in ModelNames
              /\ \E st \in Statuses : client'.status = st /\ CreateModel(n, st) /\ Answer(st))
             => /\ client'.status = 400
                /\ models' = models
                /\ nextModelId' = nextModelId
       /\ \A id \in ModelIds, n \in ModelNameInputs :
             (/\ \E i \in 1 .. Len(models) :
                    models[i].id # id /\ models[i].name = TrimmedName[n]
              /\ \E st \in Statuses : client'.status = st /\ UpdateModel(id, n, st) /\ Answer(st))
             => /\ client'.status = 400
                /\ models' = models
                /\ nextModelId' = nextModelId]_vars

C12_Witness ==
    /\ client.status = 400
    /\ Len(models) > Len(DefaultModels)
    /\ \E i, j \in 1 .. Len(models) :
          /\ i # j
          /\ models[i].name = FlashPreview
          /\ models[j].name = CustomModel

(* C13: a run of _init_db leaves at least one model row, so the next run   *)
(* finds rows; a run that finds rows changes nothing; the run on a new     *)
(* database file leaves exactly the three default names, once each, in     *)
(* list order, under ids 1, 2, 3.                                          *)
C13_InitDbIdempotent ==
    [][InitDb
       => /\ models' # <<>>
          /\ models # <<>> => (models' = models /\ nextModelId' = nextModelId)
          /\ ~SchemaReady =>
                /\ [i \in 1 .. Len(models') |-> models'[i].name] = DefaultModels
                /\ [i \in 1 .. Len(models') |-> models'[i].id] = <<1, 2, 3>>]_vars

C13_Witness ==
    /\ StoredNames = DefaultModels
    /\ nextModelId = Len(DefaultModels) + 1
    /\ FetchModels = SeedRows(1, 1)

(* C14, as stated: the defaults are seeded at most once: a startup seeds   *)
(* only a table that never held a row.                                     *)
C14_SeededAtMostOnce ==
    [][(InitDb /\ models' # models) => ~SchemaReady]_vars

(* C14, amended: a startup seeds the defaults exactly when it finds the    *)
(* models table empty, the first time and again after deletes have removed *)
(* every row; no other request inserts the defaults.                       *)
C14_SeededWhenTableEmpty ==
    [][LET seeded == nextModelId' = nextModelId + Len(DefaultModels)
       IN  /\ seeded <=> (InitDb /\ models = <<>>)
           /\ seeded => [i \in 1 .. Len(models') |-> models'[i].name] = DefaultModels]_vars

C14_Witness ==
    /\ StoredNames = DefaultModels
    /\ models[1].id > Len(DefaultModels)

(* C11, as stated: after archive then restore the active list, every      *)
(* field of the chat (updated-at included) and its message history are as  *)
(* they were read before archiving.                                        *)
C11_ArchiveRestoreRoundTrip ==
    client.pc = "restored"
    => /\ ListChats = client.list
       /\ GetChat(client.chat_id).chat = client.row
       /\ GetChat(client.chat_id).messages = client.history

(* C11, amended: while archived the chat is absent from the active list;   *)
(* after the restore it is listed again with the same chats as before, its *)
(* title, interaction reference, last model, created-at and message        *)
(* history are unchanged, and its updated-at is the time of the restore.   *)
C11_RestoreKeepsAllButUpdatedAt ==
    LET c == client.chat_id
        listed == {ListChats[i].id : i \in 1 .. Len(ListChats)}
        before == {client.list[i].id : i \in 1 .. Len(client.list)}
    IN  /\ client.pc = "archived" => (c \notin listed /\ chats[c].archived = 1)
        /\ client.pc = "restored"
           => /\ c \in listed
              /\ listed = before
              /\ chats[c].archived = 0
              /\ [GetChat(c).chat EXCEPT !.updated_at = 0]
                    = [client.row EXCEPT !.updated_at = 0]
              /\ GetChat(c).chat.updated_at = now
              /\ GetChat(c).messages = client.history
              /\ \A i \in 1 .. Len(client.list) :
                    client.list[i].id # c
                    => \E j \in 1 .. Len(ListChats) : ListChats[j] = client.list[i]

C11_Witness ==
    /\ client.pc = "restored"
    /\ client.history # <<>>
    /\ client.row.interaction_id \in SessionIds
    /\ chats[client.chat_id].updated_at > client.row.updated_at

RECURSIVE SplitLines(_)
SplitLines(text) ==
    IF \A i \in 1 .. Len(text) : text[i] # "\n" THEN <<text>>
    ELSE LET k == CHOOSE i \in 1 .. Len(text) :
                      text[i] = "\n" /\ \A j \in 1 .. (i - 1) : text[j] # "\n"
         IN  <<SubSeq(text, 1, k - 1)>> \o SplitLines(SubSeq(text, k + 1, Len(text)))

Finished(p) == reqs[p].pc \in {"done", "failed"}

(* C15, as stated: an agentic turn whose session job did not finish in     *)
(* time ends with status 504, and one whose job ended in a terminal        *)
(* failure state ends with status 502.                                     *)
C15_JobFailureStatus ==
    \A p \in Procs :
        (Finished(p) /\ UseAgent(reqs[p].model_name))
        => \A i \in FailedSends(reqs[p].calls) :
              /\ reqs[p].calls[i].error = "timeout"
                    => (reqs[p].pc = "failed" /\ reqs[p].status = 504)
              /\ reqs[p].calls[i].error = "failed"
                    => (reqs[p].pc = "failed" /\ reqs[p].status = 502)

(* C16: for a non-agentic model with the stateful capability, a failed     *)
(* stateful call is the only stateful call of the turn and is followed at  *)
(* once by one stateless call whose prompt is the history window plus the  *)
(* new message (the new message alone when the history read is empty);     *)
(* the turn's interaction reference is empty.                              *)
C16_StatefulFailureFallsBack ==
    \A p \in Procs :
        LET r == reqs[p]
            calls == r.calls
        IN  (~UseAgent(r.model_name) /\ calls # <<>>)
            => /\ \A i \in 1 .. Len(calls) : calls[i].api = "interactions.create" => i = 1
               /\ (calls[1].api = "interactions.create" /\ ~calls[1].ok)
                  => /\ Len(calls) <= 2
                     /\ Len(calls) = 1 => r.pc = "generate_content"
                     /\ Len(calls) = 2
                        => /\ calls[2].api = "generate_content"
                           /\ calls[2].session = ""
                           /\ SplitLines(calls[2].input)
                                 = IF r.history = <<>> THEN <<r.content>>
                                   ELSE [k \in 1 .. (Len(r.history) + 1) |->
                                           IF k <= Len(r.history)
                                               THEN TurnLine(r.history[k].role,
                                                             r.history[k].content)
                                               ELSE TurnLine("user", r.content)]
                           /\ calls[2].ok => r.interaction_id = ""
                           /\ (r.pc = "done" /\ ChatExists(r.chat_id))
                                 => chats[r.chat_id].interaction_id = ""

C16_Witness ==
    \E p \in Procs :
        /\ reqs[p].pc = "done"
        /\ reqs[p].previous \in InteractionIds
        /\ Len(reqs[p].calls) = 2
        /\ reqs[p].calls[1].api = "interactions.create"
        /\ ~reqs[p].calls[1].ok
        /\ reqs[p].calls[2].ok
        /\ Len(reqs[p].history) > 1
        /\ chats[reqs[p].chat_id].interaction_id = ""

(* C18, as stated: every message row belongs to an existing chat row.      *)
C18_NoMessageOutlivesChat ==
    \A m \in Rows : ChatExists(m.chat_id)

PriorTurns(p) ==
    LET rows == SelectSeq(FetchMessages(reqs[p].chat_id),
                          LAMBDA m : m.id < reqs[p].user_msg_id)
    IN  [i \in 1 .. Len(rows) |-> [role |-> rows[i].role, content |-> rows[i].content]]

(* C19, as stated: the history handed to the adapter holds only the turns  *)
(* stored before the new user message, and in every prompt sent to the     *)
(* model the new user text occurs exactly once, as the last line.          *)
C19_NewMessageOnceAndLast ==
    [][\A p \in Procs :
          /\ (reqs[p].pc = "fetch_history" /\ reqs'[p].pc = "ensure_api_key")
                => reqs'[p].history = PriorTurns(p)
          /\ (Len(reqs'[p].calls) = Len(reqs[p].calls) + 1
                /\ Last(reqs'[p].calls).api # "create_session"
                /\ \A k \in 1 .. (Len(reqs[p].history) - 1) :
                      reqs[p].history[k].content # reqs[p].content)
                => LET lines == SplitLines(Last(reqs'[p].calls).input)
                   IN  {k \in 1 .. Len(lines) :
                           lines[k] \in {reqs[p].content,
                                         TurnLine("user", reqs[p].content)}}
                          = {Len(lines)}]_vars

(* C20, as stated: a message sent to a session created in this turn, for a *)
(* chat with prior stored turns, carries the history transcript: more than *)
(* the new text, starting with the line of the oldest turn in the window.  *)
C20_NewSessionGetsTranscript ==
    \A p \in Procs :
        LET r == reqs[p]
            calls == r.calls
        IN  \A i, j \in 1 .. Len(calls) :
                (/\ i < j
                 /\ calls[i].api = "create_session"
                 /\ calls[i].ok
                 /\ calls[j].api = "send_message"
                 /\ calls[j].session = calls[i].session
                 /\ Len(r.history) > 1)
                => /\ calls[j].input # r.content
                   /\ Len(SplitLines(calls[j].input)) > 1
                   /\ SplitLines(calls[j].input)[1] =
                         TurnLine(LastN(r.history, HistoryWindow)[1].role,
                                  LastN(r.history, HistoryWindow)[1].content)

WindowLines(history, content) ==
    LET m == IF Len(history) > HistoryWindow THEN HistoryWindow ELSE Len(history)
    IN  [k \in 1 .. (m + 1) |->
            IF k <= m
                THEN TurnLine(history[Len(history) - m + k].role,
                              history[Len(history) - m + k].content)
                ELSE TurnLine("user", content)]

(* C17: every prompt rebuilt from history (the first message to a session  *)
(* or stateful call without a previous reference, every stateless prompt)  *)
(* has as its history lines the most recent 20 turns of the history, all   *)
(* of them when there are fewer, oldest first, then the new user line.     *)
C17_PromptHoldsLastTwentyTurns ==
    \A p \in Procs :
        LET r == reqs[p]
        IN  \A i \in 1 .. Len(r.calls) :
                (/\ r.calls[i].api # "create_session"
                 /\ r.history # <<>>
                 /\ r.calls[i].api = "generate_content" \/ r.previous = "")
                => /\ SplitLines(r.calls[i].input) = WindowLines(r.history, r.content)
                   /\ Len(SplitLines(r.calls[i].input)) <= HistoryWindow + 1
                   /\ \A k \in 1 .. (Len(r.history) - HistoryWindow) :
                         \A l \in 1 .. Len(SplitLines(r.calls[i].input)) :
                             SplitLines(r.calls[i].input)[l]
                                 # TurnLine(r.history[k].role, r.history[k].content)

C17_Witness ==
    \E p \in Procs :
        /\ Len(reqs[p].history) = HistoryWindow + 2
        /\ reqs[p].calls # <<>>
        /\ Last(reqs[p].calls).api = "generate_content"
        /\ Len(SplitLines(Last(reqs[p].calls).input)) = HistoryWindow + 1
        /\ SplitLines(Last(reqs[p].calls).input)[1] = TurnLine("user", TurnText(3))

(* C21, as stated: in a turn that succeeds, every reference passed as      *)
(* session id to the agentic send was produced by an agentic session       *)
(* creation, and every reference passed as previous interaction id to the  *)
(* stateful continuation call was produced by such a call; no reference of *)
(* one kind reaches the other API.                                         *)
C21_ReferenceStaysWithItsApi ==
    \A p \in Procs :
        LET calls == reqs[p].calls
        IN  reqs[p].pc = "done"
                => \A i \in 1 .. Len(calls) :
                      /\ calls[i].api = "send_message"
                            => calls[i].session \in SessionIds
                      /\ (calls[i].api = "interactions.create" /\ calls[i].session # "")
                            => calls[i].session \in InteractionIds

====
